---------------------------- MODULE Spec2Model ----------------------------
(***************************************************************************)
(* The synthesis request orchestrator of the CosyVoice2 HTTP API           *)
(* (src/api/main.py, src/api/service.py, src/api/config.py).               *)
(*                                                                         *)
(* The handlers are coroutines of one asyncio event loop.  A buffered      *)
(* request runs from its first line to its response without an await, so   *)
(* it occupies the loop for the whole pull of the engine's chunks          *)
(* (variable loop).  A streaming request returns a StreamingResponse       *)
(* around the generator generate(); the transport resumes the generator    *)
(* once per fragment, and between two fragments the loop is free.          *)
(*                                                                         *)
(* Text is modelled as a sequence of tokens; a substring test of the code  *)
(* ("memory" in error_msg) is a token membership test.  The Chinese        *)
(* literals of the source are written in pinyin: "yinse" is the word the   *)
(* code tests for in main.py:281.                                          *)
(*                                                                         *)
(* Specifications:                                                         *)
(*   Spec         one request with any parameters; the store and the       *)
(*                model change under the running service                   *)
(*   ConcSpec     several well-formed requests at once (FairConcSpec:      *)
(*                with the handlers running on)                            *)
(*   EntrySpec    the two entry points GET /tts and POST /tts with the     *)
(*                validation FastAPI does before the handler               *)
(*   ServiceSpec  GET /speakers and GET /health, the store holding any     *)
(*                file, also one named after a built-in voice              *)
(*   SingletonSpec  every caller of TTSService() while the model is put    *)
(*                in place and taken away                                  *)
(***************************************************************************)
EXTENDS Integers, Sequences, FiniteSets, TLC

VARIABLES
    modelPath,    \* os.path.exists(config.MODEL_PATH)
    voicesDir,    \* config.VOICES_DIR: file "<id>.pt" -> its content
    started,      \* the startup event has run
    instance,     \* TTSService._instance and its field initialized
    tts_service,  \* main.py's global tts_service is not None
    spk_custom,   \* TTSService.spk_custom, scanned by initialize_model
    loop,         \* the request whose handler occupies the event loop, or 0
    req,          \* the requests: parameters, progress and response
    listing,      \* the last answer of GET /speakers
    health,       \* the last answer of GET /health
    loads         \* the runs of initialize_model that succeeded (up to MaxLoads)

vars == <<modelPath, voicesDir, started, instance, tts_service, spk_custom, loop, req,
          listing, health, loads>>

---------------------------------------------------------------------------
(* Bounds *)

MaxReq == 1       \* requests with arbitrary parameters (Spec)
MaxConc == 2      \* concurrent well-formed requests (ConcSpec)
MaxChunks == 2    \* chunks of an engine sequence that are recorded
MaxLoads == 2     \* loads of the model that are counted

Requests == 1..(IF MaxReq > MaxConc THEN MaxReq ELSE MaxConc)

(* Inputs *)

BuiltinVoices == <<"b1">>        \* model.list_available_spks()
CustomOrder == <<"c1">>          \* the .pt files the store may hold, in os.listdir order
CustomFiles == {CustomOrder[i] : i \in 1..Len(CustomOrder)}
\* the same with a file named after a built-in voice
StoreOrder == BuiltinVoices \o CustomOrder
StoreFiles == {StoreOrder[i] : i \in 1..Len(StoreOrder)}
FileContents == {"ref", "noref", "corrupt"}
Speakers == {"", "b1", "c1", "zz"}
Texts == {<<>>, <<"hello">>}
Instructs == {"None", "", "happy"}
ExcTypes == {"ValueError", "RuntimeError"}
Keys == {"None", "cosyvoice-api-demo", "wrong"}   \* the X-API-Key header
Methods == {"GET", "POST"}       \* the entry points: tts and tts_post
Blank == " "                     \* a string of whitespace only
EntryTexts == {<<>>, <<Blank>>, <<Blank, "hello", Blank>>}
EntrySpeakers == {"", Blank, "b1"}
Speeds == {4, 5, 20, 21}         \* speed in tenths: 0.4, 0.5, 2.0, 2.1
TorchLoadErrors == {<<"corrupt", "file">>, <<"out", "of", "memory">>}

---------------------------------------------------------------------------
(* Helpers *)

Range(s) == {s[i] : i \in 1..Len(s)}

Contains(msg, kw) == \E i \in 1..Len(msg) : msg[i] = kw

RECURSIVE Flatten(_)
Flatten(ss) == IF ss = <<>> THEN <<>> ELSE Head(ss) \o Flatten(Tail(ss))

\* str.strip() of a text: the whitespace tokens at both ends are removed
RECURSIVE lstrip(_)
lstrip(text) == IF text /= <<>> /\ Head(text) = Blank THEN lstrip(Tail(text)) ELSE text
RECURSIVE rstrip(_)
rstrip(text) ==
    IF text /= <<>> /\ text[Len(text)] = Blank
    THEN rstrip(SubSeq(text, 1, Len(text) - 1)) ELSE text
strip(text) == rstrip(lstrip(text))

\* str.strip() of a voice id, which the model keeps whole
strip_id(speaker) == IF speaker = Blank THEN "" ELSE speaker

\* Python truthiness of Optional[str]: None and "" are false
Truthy(s) == s /= "None" /\ s /= ""

\* str.lower() on the tokens the model uses
LowerTok(t) == IF t = "ID" THEN "id" ELSE t
Lower(msg) == [i \in 1..Len(msg) |-> LowerTok(msg[i])]

---------------------------------------------------------------------------
(* Exceptions: type, HTTP status (HTTPException only) and message tokens *)

Exc(t, m) == [type |-> t, status |-> 0, msg |-> m]
HttpExc(code, detail) == [type |-> "HTTPException", status |-> code, msg |-> detail]
NoExc == [type |-> "none", status |-> 0, msg |-> <<>>]

\* str(e): the message of a plain exception; for an HTTPException either the
\* empty string (Starlette builds whose HTTPException defines no __str__) or
\* "<status>: <detail>", depending on the installed version
StrOf(e) ==
    IF e.type = "HTTPException"
    THEN {<<>>, <<IF e.status = 400 THEN "400" ELSE "500">> \o e.msg}
    ELSE {e.msg}

---------------------------------------------------------------------------
(* service.py *)

\* a listing of every file the store ever held, removed or not
listdir_with_removed(dir) == StoreOrder

\* the names os.listdir(VOICES_DIR) returns that end in ".pt", extension removed
listdir(dir) == SelectSeq(StoreOrder, LAMBDA f : dir[f] /= "absent")

\* get_available_voices without the scan of the store
get_available_voices_builtin_only(dir) == BuiltinVoices

\* get_available_voices(): built-in voices first, then a fresh scan of the store
get_available_voices(dir) == BuiltinVoices \o listdir(dir)

\* load_voice_data returning the loaded dictionary where the code returns
\* voice_data.get('audio_ref')
load_voice_data_whole_dict(dir, speaker) ==
    IF speaker \notin StoreFiles \/ dir[speaker] = "absent"
    THEN {[ok |-> TRUE, val |-> "None", exc |-> NoExc]}
    ELSE IF dir[speaker] = "corrupt"
    THEN {[ok |-> FALSE, val |-> "None",
           exc |-> Exc("ValueError", <<"jiazai", "yinse", "wenjian", "shibai">> \o m)]
            : m \in TorchLoadErrors}
    ELSE {[ok |-> TRUE, val |-> "voice_data", exc |-> NoExc]}

\* load_voice_data(speaker): the outcomes of one call
load_voice_data(dir, speaker) ==
    IF speaker \notin StoreFiles \/ dir[speaker] = "absent"
    THEN {[ok |-> TRUE, val |-> "None", exc |-> NoExc]}
    ELSE IF dir[speaker] = "corrupt"
    THEN {[ok |-> FALSE, val |-> "None",
           exc |-> Exc("ValueError", <<"jiazai", "yinse", "wenjian", "shibai">> \o m)]
            : m \in TorchLoadErrors}
    ELSE {[ok |-> TRUE, val |-> IF dir[speaker] = "ref" THEN "audio_ref" ELSE "None",
           exc |-> NoExc]}

\* generate_tts, the handler after "except Exception as e" (service.py:229-241)
generate_tts_except(e) ==
    LET m == Lower(e.msg) IN
    IF Contains(m, "memory")
    THEN Exc("RuntimeError", <<"neicun", "buzu">> \o e.msg)
    ELSE IF Contains(m, "timeout") \/ Contains(m, "connection")
    THEN Exc("RuntimeError", <<"wangluo", "lianjie", "cuowu">> \o e.msg)
    ELSE IF Contains(m, "not implemented")
    THEN Exc("RuntimeError", <<"pingtai", "bu", "zhichi">> \o e.msg)
    ELSE Exc("RuntimeError", <<"shengcheng", "cuowu">> \o e.msg)

\* generate_tts(text, speaker, instruct): either the engine function whose lazy
\* chunk sequence it returns (fn) or the exception it raises
generate_tts(custom, dir, speaker, instruct) ==
    IF speaker \notin Range(BuiltinVoices) /\ speaker \notin Range(custom)
    THEN {[ok |-> FALSE, fn |-> "none", ref |-> "None",
           exc |-> generate_tts_except(Exc("ValueError",
                     <<"yinse", speaker, "bu", "cunzai", "keyong", "yinse">>
                        \o BuiltinVoices \o custom))]}
    ELSE IF Truthy(instruct)
    THEN {IF ~l.ok
          THEN [ok |-> FALSE, fn |-> "none", ref |-> "None", exc |-> generate_tts_except(l.exc)]
          ELSE IF l.val = "None"
          THEN [ok |-> FALSE, fn |-> "none", ref |-> "None",
                exc |-> generate_tts_except(Exc("ValueError",
                     <<"wufa", "jiazai", "yinse", speaker, "cankao", "yinpin">>))]
          ELSE [ok |-> TRUE, fn |-> "inference_instruct2", ref |-> l.val, exc |-> NoExc]
            : l \in load_voice_data(dir, speaker)}
    ELSE {[ok |-> TRUE, fn |-> "inference_sft", ref |-> "None", exc |-> NoExc]}

\* the tensor of the engine's k-th chunk (k from 0): one channel, k+1 samples,
\* no sample value shared with another chunk
Chunk(k) == [channels |-> 1, samples |-> [i \in 1..(k + 1) |-> 10 * k + i]]

SampleRate == 22050

\* process_audio saving the first tensor only, without torch.concat
process_audio_first_only(tts_speeches, format, enc) ==
    IF tts_speeches = <<>>
    THEN [ok |-> FALSE, buf |-> <<>>, exc |-> Exc("RuntimeError", <<"torch", "concat", "empty">>)]
    ELSE IF enc /= "ok"
    THEN [ok |-> FALSE, buf |-> <<>>, exc |-> Exc(enc, <<"torchaudio", "save">>)]
    ELSE [ok |-> TRUE,
          buf |-> <<[format |-> format, sample_rate |-> SampleRate,
                     channels |-> tts_speeches[1].channels,
                     samples |-> tts_speeches[1].samples]>>,
          exc |-> NoExc]

\* process_audio(tts_speeches, format=...): torch.concat along dim 1, then
\* torchaudio.save; enc is "ok" or the type of the exception the encoder raises
process_audio(tts_speeches, format, enc) ==
    IF tts_speeches = <<>>
    THEN [ok |-> FALSE, buf |-> <<>>, exc |-> Exc("RuntimeError", <<"torch", "concat", "empty">>)]
    ELSE IF \E i \in 1..Len(tts_speeches) : tts_speeches[i].channels /= tts_speeches[1].channels
    THEN [ok |-> FALSE, buf |-> <<>>, exc |-> Exc("RuntimeError", <<"torch", "concat", "sizes">>)]
    ELSE IF enc /= "ok"
    THEN [ok |-> FALSE, buf |-> <<>>, exc |-> Exc(enc, <<"torchaudio", "save">>)]
    ELSE [ok |-> TRUE,
          buf |-> <<[format |-> format, sample_rate |-> SampleRate,
                     channels |-> tts_speeches[1].channels,
                     samples |-> Flatten([i \in 1..Len(tts_speeches) |-> tts_speeches[i].samples])]>>,
          exc |-> NoExc]

\* TTSService() as get_tts_service and get_available_voices call it: __new__
\* makes the instance once, __init__ runs initialize_model while it is not
\* initialized; initialize_model raises when the model path does not exist
\* an __init__ that runs initialize_model without looking at initialized
initialize_model_every_time == modelPath

initialize_model_runs == instance /= "ready" /\ modelPath
TTSService_ok == instance = "ready" \/ modelPath
InstanceAfter == IF TTSService_ok THEN "ready" ELSE "uninit"
SpkCustomAfter == IF initialize_model_runs THEN listdir(voicesDir) ELSE spk_custom
LoadsAfter == IF initialize_model_runs /\ loads < MaxLoads THEN loads + 1 ELSE loads

---------------------------------------------------------------------------
(* main.py *)

\* get_tts_service(): the global is set only when TTSService() returns
get_tts_service == tts_service \/ TTSService_ok

RefMissingDetail(speaker) == <<"wufa", "jiazai", "yinse", speaker, "cankao", "yinpin">>
NotFoundDetail(speaker, ids) == <<"yinse", "ID", speaker, "bu", "cunzai", "keyong", "yinse">> \o ids
EmptyParamDetail == <<"wenben", "he", "yinse", "ID", "buneng", "weikong">>

\* inference_func, the handler after "except Exception as e" (main.py:274-284)
inference_func_except(e) ==
    {IF Contains(m, "model inputs")
     THEN Exc("ValueError", <<"moxing", "shuru", "cuowu">>)
     ELSE IF Contains(m, "memory")
     THEN Exc("ValueError", <<"neicun", "buzu">>)
     ELSE IF Contains(m, "not found") \/ Contains(m, "yinse")
     THEN Exc("ValueError", <<"yinse", "cuowu">> \o m)
     ELSE e
       : m \in StrOf(e)}

\* inference_func's try block (main.py:255-273)
inference_func_try(custom, dir, speaker, instruct) ==
    IF Truthy(instruct)
    THEN UNION {IF ~l.ok
                THEN {[ok |-> FALSE, fn |-> "none", ref |-> "None", exc |-> l.exc]}
                ELSE IF l.val = "None"
                THEN {[ok |-> FALSE, fn |-> "none", ref |-> "None",
                       exc |-> HttpExc(400, RefMissingDetail(speaker))]}
                ELSE generate_tts(custom, dir, speaker, instruct)
                  : l \in load_voice_data(dir, speaker)}
    ELSE generate_tts(custom, dir, speaker, instruct)

\* inference_func(): the engine function invoked, or the exception raised
inference_func(custom, dir, speaker, instruct) ==
    UNION {IF res.ok THEN {res}
           ELSE {[res EXCEPT !.exc = e] : e \in inference_func_except(res.exc)}
             : res \in inference_func_try(custom, dir, speaker, instruct)}

\* tts, the handlers after its outer try (main.py:313-322): the error response
tts_except(e) ==
    IF e.type = "HTTPException" THEN e
    ELSE IF e.type = "ValueError" THEN HttpExc(400, e.msg)
    ELSE HttpExc(500, <<"fuwuqi", "neibu", "cuowu">> \o e.msg)

\* no answer yet; tick is the parity of the answers given, key the X-API-Key
\* header of the request answered
NoAnswer == [tick |-> 0, key |-> "None", status |-> 0, body |-> <<>>]

\* config.py:46-56
API_KEYS == {"cosyvoice-api-demo"}
NO_AUTH_PATHS == {"/docs", "/redoc", "/openapi.json", "/health"}

\* verify_api_key (main.py:141-165), ENABLE_API_AUTH being True: the exception
\* it raises, or NoExc
verify_api_key(path, api_key) ==
    IF path \in NO_AUTH_PATHS THEN NoExc
    ELSE IF api_key = "None" THEN HttpExc(401, <<"wei", "tigong", "API", "miyao">>)
    ELSE IF api_key \notin API_KEYS THEN HttpExc(401, <<"wuxiao", "de", "API", "miyao">>)
    ELSE NoExc

\* the entries of get_available_voices(): name and voice_id are the same string
VoiceEntries(ids) == [i \in 1..Len(ids) |-> [name |-> ids[i], voice_id |-> ids[i]]]

\* a health check that answers 503 until the engine is loaded
HealthAnswerWhenReady ==
    IF tts_service
    THEN [status |-> 200, body |-> <<"status", "healthy", "service", "CosyVoice2 API">>]
    ELSE [status |-> 503, body |-> <<"status", "loading", "service", "CosyVoice2 API">>]

\* health_check (main.py:385-399): the answer is a constant
HealthAnswer == [status |-> 200, body |-> <<"status", "healthy", "service", "CosyVoice2 API">>]

\* the range of speed, in tenths (main.py:120, main.py:211: ge=0.5, le=2.0)
SpeedMin == 5
SpeedMax == 20
DefaultSpeed == 10

\* a TTSRequest that takes every speed
speed_unconstrained(speed) == TRUE

\* the constraint of Query(1.0, ge=0.5, le=2.0) and Field(1.0, ge=0.5, le=2.0)
speed_in_range(speed) == speed >= SpeedMin /\ speed <= SpeedMax

\* the validators of TTSRequest (main.py:122-132): "if not v.strip(): raise"
text_not_empty(v) == strip(v) /= <<>>
speaker_not_empty(v) == strip_id(v) /= ""

\* FastAPI's validation of the parameters before the route function is called:
\* the Query declarations of tts (main.py:207-211), the model TTSRequest of
\* tts_post (main.py:115-132)
RequestValid(method, text, speaker, speed) ==
    IF method = "GET"
    THEN speed_in_range(speed)
    ELSE text_not_empty(text) /\ speaker_not_empty(speaker) /\ speed_in_range(speed)

\* the answer of request_validation_exception_handler (main.py:180-183)
ValidationDetail == <<"RequestValidationError">>

InitFailDetail == <<"chushihua", "TTS", "fuwu", "shibai">>
EngineMsg == <<"engine", "failure">>

\* a request before it arrives
IdleReq ==
    [phase |-> "idle", text |-> <<>>, speaker |-> "", instruct |-> "None",
     streaming |-> FALSE,
     method |-> "GET",      \* the entry point: GET /tts or POST /tts
     speed |-> DefaultSpeed,
     fnspeed |-> 0,         \* the speed the engine function was called with
     status |-> 0, detail |-> <<>>, body |-> <<>>,   \* the response
     began |-> FALSE,       \* inference_func has been called
     fn |-> "none",         \* the engine function invoked
     ref |-> "None",        \* the reference audio passed to it
     gen |-> "none",        \* the engine's chunk sequence
     endless |-> FALSE,     \* the sequence never terminates
     n |-> 0,               \* chunks pulled (counted up to MaxChunks)
     spin |-> 0,            \* parity of the pulls beyond MaxChunks
     frags |-> <<>>,        \* fragments handed to the transport
     sent |-> 0,            \* fragments whose awaited send has returned
     enc |-> "none",        \* the encoder's last answer
     log |-> <<>>,          \* errors logged by generate() (main.py:294)
     client |-> "on"]       \* the client's connection: "on" or "gone"

\* the error response of a handler that raises HTTPException h
Respond(q, h) == [q EXCEPT !.phase = "done", !.status = h.status, !.detail = h.msg]

\* the records a call of the engine function can leave: the sequence is lazy,
\* nothing is computed before the first pull
Invoke(q, res) ==
    {[q EXCEPT !.began = TRUE, !.fn = res.fn, !.ref = res.ref, !.fnspeed = q.speed,
               !.gen = "live", !.endless = e]
        : e \in BOOLEAN}

\* tts after get_tts_service (main.py:230-311), up to the first pull
tts_body(q, custom, dir) ==
    IF q.text = <<>> \/ q.speaker = ""
    THEN {Respond(q, HttpExc(400, EmptyParamDetail))}
    ELSE IF q.speaker \notin Range(get_available_voices(dir))
    THEN {Respond(q, HttpExc(400, NotFoundDetail(q.speaker, get_available_voices(dir))))}
    ELSE IF q.streaming
    THEN {[q EXCEPT !.phase = "open", !.status = 200]}
    ELSE UNION {IF res.ok
                THEN {[g EXCEPT !.phase = "pulling"] : g \in Invoke(q, res)}
                ELSE {Respond([q EXCEPT !.began = TRUE], tts_except(res.exc))}
                  : res \in inference_func(custom, dir, q.speaker, q.instruct)}

\* one pull of the engine's sequence: "chunk", "stop", or the exception type
EnginePull(q) ==
    (IF q.endless \/ q.n < MaxChunks THEN {"chunk"} ELSE {})
        \cup (IF q.endless THEN {} ELSE {"stop"} \cup ExcTypes)

\* the count of a pull that yields a chunk
Pulled(q) ==
    IF q.n < MaxChunks THEN [q EXCEPT !.n = q.n + 1] ELSE [q EXCEPT !.spin = 1 - q.spin]

\* the list of the chunks pulled, last chunk first
SpeechesReversed(n) == [i \in 1..n |-> Chunk(n - i)]

\* [i['tts_speech'] for i in inference_func()] after n pulls
Speeches(n) == [i \in 1..n |-> Chunk(i - 1)]

\* buffered mode, the sequence is exhausted (main.py:305-311)
BufferedFinish(q, enc) ==
    LET a == process_audio(Speeches(q.n), "wav", enc)
        g == [q EXCEPT !.gen = "exhausted", !.enc = IF enc = "ok" THEN "ok" ELSE "failed"]
    IN  IF a.ok
        THEN [g EXCEPT !.phase = "done", !.status = 200, !.body = a.buf]
        ELSE Respond([g EXCEPT !.enc = "failed"], tts_except(a.exc))

\* buffered mode answering an engine failure with the chunks pulled so far
BufferedRaisePartial(q, t) == [BufferedFinish(q, "ok") EXCEPT !.gen = "raised"]

\* buffered mode, the engine raises during a pull
BufferedRaise(q, t) == Respond([q EXCEPT !.gen = "raised"], tts_except(Exc(t, EngineMsg)))

\* generate() with the try inside the loop: the error is logged, the loop goes on
StreamFailContinue(q, e) == [q EXCEPT !.log = Append(q.log, e)]

\* generate(): the exception handler (main.py:293-295); the stream ends
StreamFail(q, e) == [q EXCEPT !.phase = "done", !.log = Append(q.log, e)]

\* generate() encoding every chunk pulled so far instead of the new one
StreamEmitAccumulated(q, enc) ==
    LET a == process_audio(Speeches(q.n + 1), "ogg", enc)
        g == Pulled(q)
    IN  IF ~a.ok
        THEN [g EXCEPT !.phase = "done", !.log = Append(q.log, a.exc),
                       !.gen = "abandoned", !.enc = "failed"]
        ELSE IF q.n < MaxChunks
        THEN [g EXCEPT !.frags = q.frags \o a.buf, !.enc = "ok"]
        ELSE [g EXCEPT !.enc = "ok"]

\* generate(): one chunk is encoded and yielded (main.py:291-292)
StreamEmit(q, enc) ==
    LET a == process_audio(<<Chunk(q.n)>>, "ogg", enc)
        g == Pulled(q)
    IN  IF ~a.ok
        THEN StreamFail([g EXCEPT !.gen = "abandoned", !.enc = "failed"], a.exc)
        ELSE IF q.n < MaxChunks
        THEN [g EXCEPT !.frags = q.frags \o a.buf, !.enc = "ok"]
        ELSE [g EXCEPT !.enc = "ok"]

\* generate(): one resumption with the sequence live
StreamPull(q) ==
    UNION {IF o = "chunk" THEN {StreamEmit(q, enc) : enc \in {"ok"} \cup ExcTypes}
           ELSE IF o = "stop" THEN {[q EXCEPT !.phase = "done", !.gen = "exhausted"]}
           ELSE {StreamFail([q EXCEPT !.gen = "raised"], Exc(o, EngineMsg))}
             : o \in EnginePull(q)}

\* generate(): the first resumption calls inference_func
StreamBegin(q, custom, dir) ==
    UNION {IF res.ok
           THEN UNION {StreamPull(g) : g \in Invoke(q, res)}
           ELSE {StreamFail([q EXCEPT !.began = TRUE], res.exc)}
             : res \in inference_func(custom, dir, q.speaker, q.instruct)}

\* a transport that asks for the next fragment without awaiting the send
TransportEager(q) == TRUE

\* StreamingResponse iterates generate() and awaits the send of each fragment
\* before it asks for the next: generate() is resumed only when every fragment
\* it has yielded is sent
TransportReady(q) == q.sent = Len(q.frags)

\* a transport that goes on iterating generate() after the client is gone
AbandonKeepDraining(q) == [q EXCEPT !.client = "gone"]

\* the transport stops iterating generate() when the client is gone; the
\* suspended generator and the engine's sequence are closed
Abandon(q) ==
    [q EXCEPT !.client = "gone", !.phase = "aborted",
              !.gen = IF q.gen = "live" THEN "abandoned" ELSE q.gen]

---------------------------------------------------------------------------
(* The state machine *)

\* before the service starts: any content of the store
InitStore ==
    /\ modelPath \in BOOLEAN
    /\ voicesDir \in [StoreFiles -> FileContents \cup {"absent"}]
    /\ started = FALSE
    /\ instance = "none"
    /\ tts_service = FALSE
    /\ spk_custom = <<>>
    /\ loop = 0
    /\ req = [r \in Requests |-> IdleReq]
    /\ listing = NoAnswer
    /\ health = NoAnswer
    /\ loads = 0

\* the same with no file in the store named after a built-in voice
Init ==
    /\ InitStore
    /\ \A f \in StoreFiles \ CustomFiles : voicesDir[f] = "absent"

\* startup_event (main.py:71-112): PRELOAD_MODEL is True (config.py:24-28)
startup_event ==
    /\ ~started
    /\ started' = TRUE
    /\ instance' = InstanceAfter
    /\ spk_custom' = SpkCustomAfter
    /\ loads' = LoadsAfter
    /\ tts_service' = get_tts_service
    /\ UNCHANGED <<modelPath, voicesDir, loop, req, listing, health>>

\* GET /tts and POST /tts (main.py:203-353) with the parameters drawn from the
\* given sets; tts_post calls tts with the fields of the validated TTSRequest
tts_request(r, methods, texts, speakers, instructs, speeds) ==
    /\ started /\ loop = 0
    /\ req[r].phase = "idle"
    /\ \A p \in Requests : p < r => req[p].phase /= "idle"
    /\ \E method \in methods, text \in texts, speaker \in speakers, instruct \in instructs,
          streaming \in BOOLEAN, speed \in speeds :
         LET q == [IdleReq EXCEPT !.text = text, !.speaker = speaker,
                                  !.instruct = instruct, !.streaming = streaming,
                                  !.method = method, !.speed = speed]
         IN  IF ~RequestValid(method, text, speaker, speed)
             THEN /\ req' = [req EXCEPT ![r] = Respond(q, HttpExc(422, ValidationDetail))]
                  /\ UNCHANGED <<instance, spk_custom, loads, tts_service, loop>>
             ELSE /\ instance' = InstanceAfter
                  /\ spk_custom' = SpkCustomAfter
                  /\ loads' = LoadsAfter
                  /\ tts_service' = get_tts_service
                  /\ \E g \in IF get_tts_service
                               THEN tts_body(q, SpkCustomAfter, voicesDir)
                               ELSE {Respond(q, HttpExc(500, d))
                                       : d \in StrOf(HttpExc(500, InitFailDetail))} :
                        /\ req' = [req EXCEPT ![r] = g]
                        /\ loop' = IF g.phase = "pulling" THEN r ELSE 0
    /\ UNCHANGED <<modelPath, voicesDir, started, listing, health>>

\* GET /tts with the default speed
tts_with(r, texts, speakers, instructs) ==
    tts_request(r, {"GET"}, texts, speakers, instructs, {DefaultSpeed})

tts(r) == tts_with(r, Texts, Speakers, Instructs)

\* GET /tts for a built-in voice, with a text and without instruction
tts_valid(r) == tts_with(r, {<<"hello">>}, Range(BuiltinVoices), {"None"})

\* GET or POST /tts for the built-in voice, with any text and any speed
tts_entry(r) == tts_request(r, Methods, EntryTexts, EntrySpeakers, {"None"}, Speeds)

\* buffered mode: one pull of the list comprehension (main.py:304), and at
\* the end of the sequence the encoding and the response
BufferedPull(r) ==
    /\ loop = r /\ req[r].phase = "pulling"
    /\ \E o \in EnginePull(req[r]) :
         \E g \in IF o = "chunk" THEN {Pulled(req[r])}
                  ELSE IF o = "stop"
                  THEN {BufferedFinish(req[r], enc) : enc \in {"ok"} \cup ExcTypes}
                  ELSE {BufferedRaise(req[r], o)} :
           /\ req' = [req EXCEPT ![r] = g]
           /\ loop' = IF g.phase = "pulling" THEN r ELSE 0
    /\ UNCHANGED <<modelPath, voicesDir, started, instance, tts_service, spk_custom, loads, listing, health>>

\* streaming mode: the transport resumes generate() (main.py:288-295)
generate(r) ==
    /\ loop = 0 /\ req[r].phase = "open"
    /\ TransportReady(req[r])
    /\ \E g \in IF req[r].began THEN StreamPull(req[r])
                ELSE StreamBegin(req[r], spk_custom, voicesDir) :
         req' = [req EXCEPT ![r] = g]
    /\ UNCHANGED <<modelPath, voicesDir, started, instance, tts_service, spk_custom, loads, loop, listing, health>>

\* streaming mode: the send the transport awaits for the last fragment returns,
\* as early or as late as the client's side takes the fragment
send(r) ==
    /\ loop = 0 /\ req[r].streaming /\ req[r].client = "on"
    /\ req[r].sent < Len(req[r].frags)
    /\ req' = [req EXCEPT ![r].sent = req[r].sent + 1]
    /\ UNCHANGED <<modelPath, voicesDir, started, instance, tts_service, spk_custom, loads, loop,
                   listing, health>>

\* the client of a streaming request closes the connection
Disconnect(r) ==
    /\ loop = 0 /\ req[r].phase = "open"
    /\ req' = [req EXCEPT ![r] = Abandon(req[r])]
    /\ UNCHANGED <<modelPath, voicesDir, started, instance, tts_service, spk_custom, loads, loop, listing, health>>

\* GET /speakers (main.py:356-382): get_available_voices() makes TTSService(),
\* which loads the model when it is not loaded, and scans the store
speakers(api_key) ==
    /\ started /\ loop = 0
    /\ LET a == verify_api_key("/speakers", api_key) IN
         IF a /= NoExc
         THEN /\ listing' = [tick |-> 1 - listing.tick, key |-> api_key,
                             status |-> a.status, body |-> <<>>]
              /\ UNCHANGED <<instance, spk_custom, loads>>
         ELSE /\ instance' = InstanceAfter
              /\ spk_custom' = SpkCustomAfter
              /\ loads' = LoadsAfter
              /\ listing' = [tick |-> 1 - listing.tick, key |-> api_key,
                             status |-> IF TTSService_ok THEN 200 ELSE 500,
                             body |-> IF TTSService_ok
                                      THEN VoiceEntries(get_available_voices(voicesDir))
                                      ELSE <<>>]
    /\ UNCHANGED <<modelPath, voicesDir, started, tts_service, loop, req, health>>

\* GET /health (main.py:385-399): the route declares no dependency, so no API
\* key is looked at, and the handler touches neither the service nor the model
health_check(api_key) ==
    /\ started /\ loop = 0
    /\ health' = [tick |-> 1 - health.tick, key |-> api_key,
                  status |-> HealthAnswer.status, body |-> HealthAnswer.body]
    /\ UNCHANGED <<modelPath, voicesDir, started, instance, tts_service, spk_custom, loads, loop,
                   req, listing>>

\* the voice store changes on disk
AddVoice(f, c) ==
    /\ voicesDir[f] = "absent"
    /\ voicesDir' = [voicesDir EXCEPT ![f] = c]
    /\ UNCHANGED <<modelPath, started, instance, tts_service, spk_custom, loads, loop, req, listing, health>>

RemoveVoice(f) ==
    /\ voicesDir[f] /= "absent"
    /\ voicesDir' = [voicesDir EXCEPT ![f] = "absent"]
    /\ UNCHANGED <<modelPath, started, instance, tts_service, spk_custom, loads, loop, req, listing, health>>

\* the pretrained model is put in place
InstallModel ==
    /\ ~modelPath
    /\ modelPath' = TRUE
    /\ UNCHANGED <<voicesDir, started, instance, tts_service, spk_custom, loads, loop, req, listing, health>>

Next ==
    \/ startup_event
    \/ \E r \in 1..MaxReq : tts(r)
    \/ \E r \in Requests : BufferedPull(r)
    \/ \E r \in Requests : generate(r)
    \/ \E r \in Requests : send(r)
    \/ \E r \in Requests : Disconnect(r)
    \/ \E f \in CustomFiles, c \in FileContents : AddVoice(f, c)
    \/ \E f \in CustomFiles : RemoveVoice(f)
    \/ InstallModel

Spec == Init /\ [][Next]_vars

\* several well-formed requests at once, the model installed, the store empty
InitConc ==
    /\ Init
    /\ modelPath
    /\ \A f \in CustomFiles : voicesDir[f] = "absent"

NextConc ==
    \/ startup_event
    \/ \E r \in 1..MaxConc : tts_valid(r)
    \/ \E r \in Requests : BufferedPull(r)
    \/ \E r \in Requests : generate(r)
    \/ \E r \in Requests : send(r)
    \/ \E r \in Requests : Disconnect(r)

ConcSpec == InitConc /\ [][NextConc]_vars

\* the two entry points of synthesis, the model installed, the store empty
NextEntry ==
    \/ startup_event
    \/ \E r \in 1..MaxReq : tts_entry(r)
    \/ \E r \in Requests : BufferedPull(r)
    \/ \E r \in Requests : generate(r)
    \/ \E r \in Requests : send(r)

EntrySpec == InitConc /\ [][NextEntry]_vars

\* the pretrained model is taken away
RemoveModel ==
    /\ modelPath
    /\ modelPath' = FALSE
    /\ UNCHANGED <<voicesDir, started, instance, tts_service, spk_custom, loads, loop, req,
                   listing, health>>

\* every caller of TTSService(): the startup preload, synthesis and the voice
\* listing, while the model comes and goes
NextSingleton ==
    \/ startup_event
    \/ \E r \in 1..MaxReq : tts_valid(r)
    \/ \E r \in Requests : BufferedPull(r)
    \/ \E r \in Requests : generate(r)
    \/ \E r \in Requests : send(r)
    \/ \E k \in API_KEYS : speakers(k)
    \/ InstallModel
    \/ RemoveModel

SingletonSpec == Init /\ [][NextSingleton]_vars

\* the endpoints beside synthesis, the store holding any file
NextService ==
    \/ startup_event
    \/ \E k \in Keys : speakers(k)
    \/ \E k \in Keys : health_check(k)
    \/ \E f \in StoreFiles, c \in FileContents : AddVoice(f, c)
    \/ \E f \in StoreFiles : RemoveVoice(f)
    \/ InstallModel

ServiceSpec == InitStore /\ [][NextService]_vars

\* the handler threads run on: a buffered handler goes on with its pull loop, and
\* the transport goes on resuming generate() while the stream is open
FairConcSpec ==
    /\ ConcSpec
    /\ \A r \in Requests : WF_vars(BufferedPull(r)) /\ WF_vars(generate(r))

---------------------------------------------------------------------------
(* Properties *)

\* the engine's chunk sequence of request r is in flight: started, and neither
\* exhausted, failed nor abandoned
InFlight(r) == req[r].gen = "live"

\* request r calls inference_func in this step
Begins(r) == ~req[r].began /\ req'[r].began

\* request r arrives in this step
Arrives(r) == req[r].phase = "idle" /\ req'[r].phase /= "idle"

\* the store holds reference audio that loads for the voice
RefObtainable(dir, speaker) == speaker \in StoreFiles /\ dir[speaker] = "ref"

\* the voice ids valid now: the engine's built-in voices and the files of the store
RegistryIds == Range(BuiltinVoices) \cup {f \in StoreFiles : voicesDir[f] /= "absent"}

\* the voice ids a NotFound message lists after its text
ListedIds(detail) == {detail[i] : i \in 8..Len(detail)}

\* C1: with the default concurrency of 1 no two engine invocations are in flight
\* at the same time: at most one request has a started, unfinished chunk sequence
C1_SingleFlight == Cardinality({r \in Requests : InFlight(r)}) <= 1

\* C2: a request with a non-empty instruction for a voice with no obtainable
\* reference audio fails when its mode is selected, in buffered mode (error
\* response, no body) and in streaming mode (error logged, no fragment), and no
\* engine function is ever invoked for it
C2_NoEngineCallWithoutReference ==
    [][\A r \in Requests :
         /\ (Begins(r) /\ Truthy(req'[r].instruct)
                /\ ~RefObtainable(voicesDir, req'[r].speaker))
              => /\ req'[r].fn = "none" /\ req'[r].gen = "none"
                 /\ req'[r].phase = "done"
                 /\ req'[r].body = <<>> /\ req'[r].frags = <<>>
                 /\ IF req'[r].streaming THEN Len(req'[r].log) = 1
                                         ELSE req'[r].status >= 400
         /\ req[r].began => req'[r].fn = req[r].fn /\ req'[r].began]_vars

C2_Witness ==
    \E r \in Requests :
        /\ req[r].streaming /\ req[r].began /\ Truthy(req[r].instruct)
        /\ req[r].fn = "none" /\ Len(req[r].log) = 1
        /\ Contains(req[r].log[1].msg, "cankao")
        /\ req[r].speaker \in CustomFiles /\ voicesDir[req[r].speaker] = "noref"

\* C3: every request whose voice id passed validation invokes the engine in
\* Default mode (inference_sft) when the instruction is absent or empty and in
\* Instructed mode (inference_instruct2) when the instruction is non-empty and
\* the reference audio loads
C3_ModeSelection ==
    [][\A r \in Requests :
         Begins(r) =>
            /\ ~Truthy(req'[r].instruct) => req'[r].fn = "inference_sft"
            /\ (Truthy(req'[r].instruct) /\ RefObtainable(voicesDir, req'[r].speaker))
                 => req'[r].fn = "inference_instruct2"]_vars

\* C4: a request with a non-empty instruction for a voice whose reference audio
\* cannot be loaded is answered with HTTP 400, in buffered and in streaming mode
C4_ReferenceMissingIs400 ==
    [][\A r \in Requests :
         (Begins(r) /\ Truthy(req'[r].instruct)
            /\ ~RefObtainable(voicesDir, req'[r].speaker))
           => req'[r].status = 400]_vars

\* C5: a synthesis request (non-empty text and voice id, service available) whose
\* voice id is not in the registry at the time of the call is rejected with
\* HTTP 400, the message names the voice id and lists exactly the voice ids valid
\* at that time, and the engine is not invoked
C5_NotFoundListsRegistry ==
    [][\A r \in Requests :
         (Arrives(r) /\ get_tts_service /\ req'[r].text /= <<>> /\ req'[r].speaker /= ""
            /\ req'[r].speaker \notin RegistryIds)
           => /\ req'[r].phase = "done" /\ req'[r].status = 400
              /\ Len(req'[r].detail) >= 7 /\ req'[r].detail[3] = req'[r].speaker
              /\ Contains(req'[r].detail, "cunzai")
              /\ ListedIds(req'[r].detail) = RegistryIds
              /\ ~req'[r].began /\ req'[r].fn = "none" /\ req'[r].gen = "none"]_vars

C5_Witness ==
    \E r \in Requests :
        /\ req[r].phase = "done" /\ req[r].speaker = "zz" /\ req[r].status = 400
        /\ ListedIds(req[r].detail) = {"b1", "c1"}
        /\ ~req[r].began

\* C6: in buffered mode, when the engine fails after any number of chunks or the
\* encoder fails, the request ends with an error response and no audio byte of
\* the chunks pulled is sent
C6_BufferedNoPartialAudio ==
    \A r \in Requests :
        (~req[r].streaming /\ (req[r].gen = "raised" \/ req[r].enc = "failed"))
          => /\ req[r].phase = "done"
             /\ req[r].status \in {400, 500}
             /\ req[r].body = <<>> /\ req[r].frags = <<>>

C6_Witness ==
    \E r \in Requests :
        /\ ~req[r].streaming /\ req[r].gen = "raised" /\ req[r].n = MaxChunks
        /\ req[r].status = 500

\* C7: in streaming mode the fragments emitted are, in order, the encodings of
\* the chunks the engine yielded, one fragment per chunk, each of exactly that
\* chunk's samples (the last chunk pulled has no fragment only when its encoding
\* failed, which ends the stream)
C7_OneFragmentPerChunkInOrder ==
    \A r \in Requests :
        req[r].streaming =>
            /\ \/ Len(req[r].frags) = req[r].n
               \/ req[r].enc = "failed" /\ Len(req[r].frags) = req[r].n - 1
            /\ \A i \in 1..Len(req[r].frags) :
                  /\ req[r].frags[i].format = "ogg"
                  /\ req[r].frags[i].samples = Chunk(i - 1).samples

C7_Witness ==
    \E r \in Requests :
        /\ req[r].streaming /\ req[r].phase = "done" /\ req[r].gen = "exhausted"
        /\ Len(req[r].frags) = MaxChunks

\* C8: in streaming mode, once the engine has failed the stream is closed, the
\* failure is logged once, the fragments emitted are exactly those of the chunks
\* pulled before the failure, and nothing is pulled or emitted afterwards
C8_StreamStopsOnEngineFailure ==
    /\ [](\A r \in Requests :
            (req[r].streaming /\ req[r].gen = "raised")
              => /\ req[r].phase = "done"
                 /\ Len(req[r].log) = 1 /\ req[r].log[1].msg = EngineMsg
                 /\ Len(req[r].frags) = req[r].n
                 /\ \A i \in 1..req[r].n : req[r].frags[i].samples = Chunk(i - 1).samples)
    /\ [][\A r \in Requests :
            (req[r].streaming /\ req[r].gen = "raised") => req'[r] = req[r]]_vars

C8_Witness ==
    \E r \in Requests :
        /\ req[r].streaming /\ req[r].gen = "raised" /\ Len(req[r].frags) >= 1
        /\ req[r].phase = "done" /\ Len(req[r].log) = 1

\* request r has failed with Timeout
TimedOut(r) == req[r].phase = "done" /\ Contains(req[r].detail, "Timeout")

\* C9: a request whose engine chunk sequence never terminates eventually fails
\* with Timeout (unless the request has ended before: the client gone, the
\* encoder failed), so its sequence does not stay in flight for ever
C9_EndlessEngineTimesOut ==
    \A r \in Requests :
        (InFlight(r) /\ req[r].endless) ~> (TimedOut(r) \/ ~InFlight(r))

UnknownVoice(q) ==
    \/ Contains(q.detail, "cunzai")
    \/ \E i \in 1..Len(q.log) : Contains(q.log[i].msg, "cunzai")

\* C11: a synthesis request naming a voice that is in the registry at the time
\* of the call (built-in, or a file of the store, whenever it was added) is not
\* rejected as an unknown voice, neither by the handler's validation when the
\* request arrives nor by the service's voice check when inference_func is called
C11_AddedVoiceResolvable ==
    [][\A r \in Requests :
         ((Arrives(r) \/ Begins(r)) /\ req'[r].speaker \in RegistryIds)
           => ~UnknownVoice(req'[r])]_vars

\* the voice ids of a GET /speakers answer, in order
ListingIds == [i \in 1..Len(listing.body) |-> listing.body[i].voice_id]

\* C12: GET /speakers never returns two entries with the same voice id: a store
\* file named after a built-in voice gives one entry, not two
C12_NoDuplicateIds ==
    \A i, j \in 1..Len(listing.body) :
        listing.body[i].voice_id = listing.body[j].voice_id => i = j

\* a call of GET /speakers is answered in this step
Lists == listing'.tick /= listing.tick

\* C13: each call of GET /speakers that answers with a list returns exactly the
\* built-in voices and the files the store holds at the time of the call,
\* whatever was added or removed before and whatever the service scanned when
\* it was initialized
C13_ListingIsCurrent ==
    [][(Lists /\ listing'.status = 200)
         => /\ Range([i \in 1..Len(listing'.body) |-> listing'.body[i].voice_id]) = RegistryIds
            /\ \A i \in 1..Len(listing'.body) :
                  listing'.body[i].name = listing'.body[i].voice_id]_vars

\* the service scanned the store when it held b1.pt only; b1.pt has been removed
\* and c1.pt added since: the answer lists c1, and b1 once, as the built-in voice
C13_Witness ==
    /\ listing.status = 200
    /\ ListingIds = <<"b1", "c1">>
    /\ spk_custom = <<"b1">>

\* the text or the voice id of a request is empty after trimming whitespace
BlankParams(q) == strip(q.text) = <<>> \/ strip_id(q.speaker) = ""

\* C14: on GET and on POST, a request whose text or voice id is empty after
\* trimming whitespace is rejected as a validation error and inference_func is
\* never called for it, so no engine function is invoked
C14_BlankNeverReachesEngine ==
    \A r \in Requests :
        (req[r].phase /= "idle" /\ BlankParams(req[r]))
          => /\ req[r].phase = "done" /\ req[r].status \in {400, 422}
             /\ ~req[r].began /\ req[r].fn = "none" /\ req[r].gen = "none"

\* C15: a buffered request that fails because the engine raised while chunks
\* were pulled, or because the encoder raised, is answered as Internal (HTTP
\* 500), never as a user-correctable error (HTTP 400), whatever the type of the
\* exception
C15_EngineFailureIsInternal ==
    \A r \in Requests :
        (~req[r].streaming /\ (req[r].gen = "raised" \/ req[r].enc = "failed"))
          => req[r].status = 500

\* the number of samples of the engine's k-th chunk, and of its first n chunks
ChunkLen(k) == Len(Chunk(k).samples)
RECURSIVE SumLens(_)
SumLens(n) == IF n = 0 THEN 0 ELSE SumLens(n - 1) + ChunkLen(n - 1)

\* the samples are those of the first n chunks, chunk after chunk
InChunkOrder(samples, n) ==
    /\ Len(samples) = SumLens(n)
    /\ \A k \in 0..(n - 1) : \A i \in 1..ChunkLen(k) :
          samples[SumLens(k) + i] = Chunk(k).samples[i]

\* C16: a buffered request whose engine yields a finite non-empty chunk sequence
\* (and whose encoding succeeds) is answered 200 with one payload, the WAV
\* encoding of all chunks' samples in chunk order: its sample count is the sum
\* of the chunk lengths; and no other buffered answer carries a payload
C16_BufferedIsConcatenation ==
    \A r \in Requests :
        /\ (~req[r].streaming /\ req[r].gen = "exhausted" /\ req[r].n >= 1
              /\ req[r].enc = "ok")
             => /\ req[r].phase = "done" /\ req[r].status = 200
                /\ Len(req[r].body) = 1
                /\ req[r].body[1].format = "wav"
                /\ InChunkOrder(req[r].body[1].samples, req[r].n)
        /\ (~req[r].streaming /\ req[r].body /= <<>>)
             => req[r].gen = "exhausted" /\ req[r].n >= 1 /\ req[r].enc = "ok"

\* chunks of 1 and 2 samples (MaxChunks = 2) give a payload of exactly 3
C16_Witness ==
    \E r \in Requests :
        /\ ~req[r].streaming /\ req[r].status = 200 /\ req[r].n = MaxChunks
        /\ Len(req[r].body) = 1
        /\ Len(req[r].body[1].samples) = SumLens(MaxChunks)
        /\ SumLens(MaxChunks) > ChunkLen(MaxChunks - 1)

\* the samples a streaming answer carries: those of its fragments, in the
\* order of emission
StreamSamples(q) == Flatten([i \in 1..Len(q.frags) |-> q.frags[i].samples])

\* the samples a buffered answer carries
BodySamples(q) == Flatten([i \in 1..Len(q.body) |-> q.body[i].samples])

\* the same request apart from the mode
SameRequest(p, q) ==
    /\ p.text = q.text /\ p.speaker = q.speaker /\ p.instruct = q.instruct
    /\ p.speed = q.speed

\* C17: for the same request and the same engine behaviour (the same function
\* invoked, the same number of chunks yielded, the sequence ended), the samples
\* of a fully consumed streaming answer are those of the buffered answer; the
\* containers differ (one OGG fragment per chunk, one WAV payload)
C17_StreamingEqualsBuffered ==
    \A r1, r2 \in Requests :
        (/\ req[r1].streaming /\ ~req[r2].streaming
         /\ SameRequest(req[r1], req[r2])
         /\ req[r1].phase = "done" /\ req[r1].gen = "exhausted"
         /\ req[r2].phase = "done" /\ req[r2].status = 200
         /\ req[r1].fn = req[r2].fn /\ req[r1].n = req[r2].n)
          => /\ StreamSamples(req[r1]) = BodySamples(req[r2])
             /\ \A i \in 1..Len(req[r1].frags) : req[r1].frags[i].format = "ogg"
             /\ \A i \in 1..Len(req[r2].body) : req[r2].body[i].format = "wav"

C17_Witness ==
    \E r1, r2 \in Requests :
        /\ req[r1].streaming /\ req[r1].phase = "done" /\ req[r1].gen = "exhausted"
        /\ ~req[r2].streaming /\ req[r2].status = 200
        /\ req[r1].n = MaxChunks /\ req[r2].n = MaxChunks
        /\ Len(req[r1].frags) = MaxChunks /\ Len(req[r2].body) = 1
        /\ SameRequest(req[r1], req[r2])

\* C18: on GET and on POST, a request whose speed is outside [0.5, 2.0] is
\* rejected as a validation error before inference_func is called, and an engine
\* function that is invoked receives the request's speed unchanged, so no
\* invocation receives a speed outside the range
C18_SpeedInRange ==
    \A r \in Requests :
        /\ (req[r].phase /= "idle" /\ (req[r].speed < SpeedMin \/ req[r].speed > SpeedMax))
             => /\ req[r].phase = "done" /\ req[r].status = 422
                /\ ~req[r].began /\ req[r].fn = "none" /\ req[r].gen = "none"
        /\ req[r].fn /= "none"
             => /\ req[r].fnspeed = req[r].speed
                /\ req[r].fnspeed >= SpeedMin /\ req[r].fnspeed <= SpeedMax
        /\ req[r].fn = "none" => req[r].fnspeed = 0

\* a POST request at the upper end of the range has reached the engine
C18_Witness ==
    \E r \in Requests :
        /\ req[r].method = "POST" /\ req[r].speed = SpeedMax
        /\ req[r].fn = "inference_sft" /\ req[r].fnspeed = SpeedMax
        /\ req[r].n >= 1

\* a call of GET /health is answered in this step
Checks == health'.tick /= health.tick

C20_PullDrivenBacklog ==
    /\ [](\A r \in Requests :
            req[r].streaming
              => /\ req[r].n - Len(req[r].frags) <= 1
                 /\ req[r].n - req[r].sent <= 1)
    /\ [][\A r \in Requests :
            (req[r].streaming /\ req'[r].n > req[r].n)
              => /\ Len(req[r].frags) = req[r].n /\ req[r].sent = req[r].n
                 /\ req'[r].n = req[r].n + 1]_vars

\* a client that has not yet taken the first fragment: the sequence is live,
\* one chunk is pulled, and generate() cannot be resumed
C20_Witness ==
    \E r \in Requests :
        /\ req[r].streaming /\ req[r].phase = "open" /\ InFlight(r)
        /\ req[r].n = 1 /\ Len(req[r].frags) = 1 /\ req[r].sent = 0
        /\ loop = 0 /\ ~ENABLED generate(r)

\* C21: the engine session is one instance for the whole process: the instance
\* made by the first TTSService() is never replaced, the model is loaded with
\* success at most once, and once it is loaded no construction or request loads
\* it again or scans the store again, whatever happens to the model on disk;
\* while it cannot be loaded the construction raises (synthesis and the voice
\* listing answer 500), main.py's global stays unset, and no engine function is
\* invoked through the uninitialized instance
C21_EngineSingleton ==
    /\ [](/\ loads <= 1
          /\ (loads = 1) <=> (instance = "ready")
          /\ tts_service => instance = "ready"
          /\ \A r \in Requests : req[r].fn /= "none" => instance = "ready")
    /\ [][/\ instance /= "none" => instance' /= "none"
          /\ instance = "ready"
               => instance' = "ready" /\ loads' = loads /\ spk_custom' = spk_custom
          /\ \A r \in Requests :
                (Arrives(r) /\ ~TTSService_ok)
                  => /\ req'[r].status = 500 /\ req'[r].phase = "done"
                     /\ ~req'[r].began /\ req'[r].fn = "none"
                     /\ instance' = "uninit" /\ ~tts_service' /\ loads' = loads
          /\ (Lists /\ ~TTSService_ok)
                  => /\ listing'.status = 500 /\ listing'.body = <<>>
                     /\ instance' = "uninit" /\ loads' = loads]_vars

\* the model was loaded once and then taken away: the voice listing and a
\* synthesis request have been served by the one initialized instance
C21_Witness ==
    /\ started /\ loads = 1 /\ instance = "ready" /\ tts_service /\ ~modelPath
    /\ listing.status = 200
    /\ \E r \in Requests : req[r].fn = "inference_sft" /\ req[r].n >= 1

=============================================================================
